---- MODULE Spec2Model ----
(***************************************************************************)
(* Storage columns of the trace processor                                  *)
(* (src/src/trace_processor/storage_columns.h): NumericColumn<T>,          *)
(* StringColumn<Id>, TsEndColumn and IdColumn behind the StorageColumn     *)
(* interface (BoundFilter, Filter, Sort, GetType, IsNaturallyOrdered,      *)
(* ReportResult), over the deques owned by the trace storage.              *)
(*                                                                         *)
(* Scale.  The element type T of the modelled NumericColumn<T> is an       *)
(* unsigned integer type (uint8_t / uint32_t) scaled down to the values    *)
(* 0 .. kTMax, with the narrowing conversion static_cast<T> taken modulo   *)
(* kTMax + 1.  A NumericColumn<double> holds integral-valued doubles.      *)
(* uint32_t row indices are scaled down to 0 .. kUint32Max.  Row r of a    *)
(* deque d is d[r + 1].                                                    *)
(*                                                                         *)
(* Numbers of the two comparison domains of NumericColumn::Filter:         *)
(* an int64_t is the integer itself; a double is held in half units        *)
(* (the double 1.5 is 3, the double 2.0 is 4), so that the conversions     *)
(* between the domains are not the identity.                               *)
(***************************************************************************)
EXTENDS Integers, Sequences, FiniteSets, TLC

\* ------------------------------------------------------------------ bounds
\* Longest deque (rows of the table) where BoundFilter, Sort and appends are followed.
MaxLen == 3
\* Longest deque (rows of the table) where every call and Filter are followed.
MaxRows == 2
\* Largest value of the (scaled-down) element type T.
TMaxValue == 2
\* How far the integer literals of a query reach beyond T's range on each side.
LitOver == 2
\* Longest duration of a TsEndColumn row (a row lasts 0 or MaxDur).
MaxDur == 2
\* Largest table id of an IdColumn.
MaxTableId == 2
\* numeric_limits<uint32_t>::max(), scaled down (it stays above every MaxLen).
MaxRowIdx == 15
\* Filter calls followed on one FilteredRowIndex.
MaxFilters == 2

\* ------------------------------------------------------- the element type T
kTMin == 0
kTMax == TMaxValue
TValues == kTMin .. kTMax
\* static_cast<T>(x) for an unsigned T: modulo 2^w.
CastT(x) == x % (kTMax + 1)

\* Default of Bounds::max_idx.
kUint32Max == MaxRowIdx

\* ------------------------------------------------ operators and sqlite values
Ops == {"EQ", "NE", "LT", "LE", "GT", "GE", "ISNULL", "GLOB"}
CompareOps == {"EQ", "NE", "LT", "LE", "GT", "GE"}

IsOpEq(op) == op = "EQ"
IsOpGe(op) == op = "GE"
IsOpGt(op) == op = "GT"
IsOpLe(op) == op = "LE"
IsOpLt(op) == op = "LT"

\* A sqlite3_value: its type and, for a number, num + half/2.
IntVal(n) == [kind |-> "int", num |-> n, half |-> 0]
FloatVal(n, h) == [kind |-> "float", num |-> n, half |-> h]
TextVal == [kind |-> "text", num |-> 0, half |-> 0]
NullVal == [kind |-> "null", num |-> 0, half |-> 0]

IntLits == {IntVal(n) : n \in (kTMin - LitOver) .. (kTMax + LitOver)}
\* The doubles 0.0, 0.5, 1.0 and 1.5.
FloatLits == {FloatVal(n, h) : n \in {0, 1}, h \in {0, 1}}
Values == IntLits \cup FloatLits \cup {TextVal, NullVal}
\* One literal of each type that a call may be followed with at lower cost.
SampleValues == {IntVal(1), FloatVal(0, 1), TextVal}

sqlite3_value_type(v) == v.kind

\* ExtractSqliteValue<C>: the literal in the comparison domain C.
ExtractSqliteValue(C, v) ==
  IF C = "double" THEN 2 * v.num + v.half ELSE v.num

\* static_cast<C>((*deque_)[row]).
StaticCast(C, x) == IF C = "double" THEN 2 * x ELSE x

\* GetPredicateForOp<C>(op): the binary test of the comparison operator.
GetPredicateForOp(op, a, b) ==
  CASE op = "EQ" -> a = b
    [] op = "NE" -> a # b
    [] op = "LT" -> a < b
    [] op = "LE" -> a <= b
    [] op = "GT" -> a > b
    [] op = "GE" -> a >= b
    [] OTHER -> FALSE

\* FindGtBound<T>, FindLtBound<T>, FindEqBound<T> for an integer literal: the
\* inclusive bound as a T (the literal is narrowed to T; a strict bound moves
\* by one, in T).
FindGtBound(is_eq, v) ==
  IF is_eq THEN CastT(v.num) ELSE CastT(CastT(v.num) + 1)

FindLtBound(is_eq, v) ==
  IF is_eq THEN CastT(v.num) ELSE CastT(CastT(v.num) - 1)

FindEqBound(v) == CastT(v.num)

\* ------------------------------------------------------------------- state
VARIABLES
  kind,                  \* the column's class: "numeric", "string", "tsend", "id"
  deque,                 \* deque_ (NumericColumn, StringColumn), ts_start_ (TsEndColumn),
                         \* the rows of the table (IdColumn, which holds no deque)
  dur,                   \* dur_ of a TsEndColumn
  string_map,            \* string_map_ of a StringColumn
  is_naturally_ordered,  \* is_naturally_ordered_ of a NumericColumn
  is_integral,           \* std::is_integral<T>::value of a NumericColumn<T>
  table_id,              \* table_id_ of an IdColumn
  index,                 \* the FilteredRowIndex of the scan: the candidate rows
  fatal,                 \* PERFETTO_FATAL was reached
  ret,                   \* the last call on the column, its arguments and result
  snap,                  \* the deque as it was when BoundFilter last ran
  hist,                  \* the (op, value) pairs Filter applied to index
  comparator,            \* the Comparator Sort returned: "none", "asc", "desc"
  order                  \* the row indices the executor is sorting

vars == <<kind, deque, dur, string_map, is_naturally_ordered, is_integral,
          table_id, index, fatal, ret, snap, hist, comparator, order>>

column == <<kind, deque, dur, string_map, is_naturally_ordered, is_integral,
            table_id>>

Size == Len(deque)
Rows == 0 .. (Size - 1)

\* ------------------------------------------------------------ pure helpers
RECURSIVE SeqsUpTo(_, _)
SeqsUpTo(S, n) ==
  IF n = 0 THEN {<<>>}
  ELSE LET shorter == SeqsUpTo(S, n - 1)
       IN shorter \cup {Append(s, x) : s \in shorter, x \in S}

IsSorted(s) == \A i \in 1 .. (Len(s) - 1) : s[i] <= s[i + 1]

\* std::lower_bound(first, last, x) over offsets into s.
RECURSIVE LowerBoundStep(_, _, _, _)
LowerBoundStep(s, first, count, x) ==
  IF count <= 0 THEN first
  ELSE LET step == count \div 2
           it == first + step
       IN IF s[it + 1] < x
          THEN LowerBoundStep(s, it + 1, count - (step + 1), x)
          ELSE LowerBoundStep(s, first, step, x)

lower_bound(s, first, last, x) == LowerBoundStep(s, first, last - first, x)

\* std::upper_bound(first, last, x) over offsets into s.
RECURSIVE UpperBoundStep(_, _, _, _)
UpperBoundStep(s, first, count, x) ==
  IF count <= 0 THEN first
  ELSE LET step == count \div 2
           it == first + step
       IN IF ~(x < s[it + 1])
          THEN UpperBoundStep(s, it + 1, count - (step + 1), x)
          ELSE UpperBoundStep(s, first, step, x)

upper_bound(s, first, last, x) == UpperBoundStep(s, first, last - first, x)

\* StorageColumn::Bounds.
Bounds(lo, hi, c) == [min_idx |-> lo, max_idx |-> hi, consumed |-> c]
DefaultBounds == Bounds(0, kUint32Max, FALSE)

\* TraceStorage::CreateRowId(table, row): table in the high bits, row in the low.
CreateRowId(table, row) == table * (kUint32Max + 1) + row

\* std::string::compare as CompareValuesAsc uses it: lexicographic.
RECURSIVE StrLess(_, _)
StrLess(a, b) ==
  IF b = <<>> THEN FALSE
  ELSE IF a = <<>> THEN TRUE
  ELSE IF Head(a) # Head(b) THEN Head(a) < Head(b)
  ELSE StrLess(Tail(a), Tail(b))

\* sqlite_utils::CompareValuesAsc / CompareValuesDesc on numbers.
CompareValuesAsc(a, b) == IF a < b THEN -1 ELSE IF a > b THEN 1 ELSE 0
CompareValuesDesc(a, b) == -CompareValuesAsc(a, b)

\* The same on std::string.
CompareStringsAsc(a, b) == IF StrLess(a, b) THEN -1 ELSE IF StrLess(b, a) THEN 1 ELSE 0
CompareStringsDesc(a, b) == -CompareStringsAsc(a, b)

\* FilteredRowIndex::FilterRows(pred): keep the candidate rows pred accepts.
FilterRows(idx, pred) == {row \in idx : pred[row]}

\* What a call hands back is kept in ret; these fill the parts a call leaves out.
NoOut == [t |-> "none", i |-> 0, s |-> <<>>]
IntOut(n) == [t |-> "int", i |-> n, s |-> <<>>]
TextOut(str) == [t |-> "text", i |-> 0, s |-> str]
NullOut == [t |-> "null", i |-> 0, s |-> <<>>]
TypeOut(name) == [t |-> name, i |-> 0, s |-> <<>>]
BoolOut(b) == [t |-> "bool", i |-> (IF b THEN 1 ELSE 0), s |-> <<>>]

Ret(call, op, val, bounds, domain, out) ==
  [call |-> call, op |-> op, val |-> val, bounds |-> bounds,
   domain |-> domain, out |-> out]

NoRet == Ret("none", "EQ", NullVal, DefaultBounds, "none", NoOut)

\* ------------------------------------------------------------- BoundFilter
\* NumericColumn<T>::BoundFilter: the inclusive value range [min, max] the
\* operator and the literal resolve to, kTMin and kTMax standing for no bound.
ResolveMin(op, sqlite_val) ==
  IF IsOpGe(op) \/ IsOpGt(op) THEN FindGtBound(IsOpGe(op), sqlite_val)
  ELSE IF IsOpLe(op) \/ IsOpLt(op) THEN kTMin
  ELSE IF IsOpEq(op) THEN FindEqBound(sqlite_val)
  ELSE kTMin

ResolveMax(op, sqlite_val) ==
  IF IsOpGe(op) \/ IsOpGt(op) THEN kTMax
  ELSE IF IsOpLe(op) \/ IsOpLt(op) THEN FindLtBound(IsOpLe(op), sqlite_val)
  ELSE IF IsOpEq(op) THEN FindEqBound(sqlite_val)
  ELSE kTMax

\* NumericColumn<T>::BoundFilter: the values converted into indices of the deque.
IndexRange(min, max) ==
  LET min_it == lower_bound(deque, 0, Len(deque), min)
      max_it == upper_bound(deque, min_it, Len(deque), max)
  IN Bounds(min_it, max_it, TRUE)

\* A plausible slip: the early return of a column that is not naturally ordered
\* is missing.
NumericBoundFilterUnchecked(op, sqlite_val) ==
  LET bounds == Bounds(0, Len(deque), FALSE)
      min == ResolveMin(op, sqlite_val)
      max == ResolveMax(op, sqlite_val)
  IN IF min <= kTMin /\ max >= kTMax THEN bounds
     ELSE IndexRange(min, max)

\* NumericColumn<T>::BoundFilter.
NumericBoundFilter(op, sqlite_val) ==
  LET bounds == Bounds(0, Len(deque), FALSE)
      min == ResolveMin(op, sqlite_val)
      max == ResolveMax(op, sqlite_val)
  IN IF ~is_naturally_ordered THEN bounds
     ELSE IF min <= kTMin /\ max >= kTMax THEN bounds
     ELSE IndexRange(min, max)

\* A plausible slip: max_idx is left at its default.
StringBoundFilterDefault(op, sqlite_val) == DefaultBounds

\* StringColumn<Id>::BoundFilter.
StringBoundFilter(op, sqlite_val) == Bounds(0, Len(deque), FALSE)

\* TsEndColumn::BoundFilter.
TsEndBoundFilter(op, sqlite_val) == Bounds(0, Len(deque), FALSE)

\* IdColumn::BoundFilter.
IdBoundFilter(op, sqlite_val) == DefaultBounds

\* StorageColumn::BoundFilter, dispatched on the column's class.
ColumnBoundFilter(op, sqlite_val) ==
  CASE kind = "numeric" -> NumericBoundFilter(op, sqlite_val)
    [] kind = "string" -> StringBoundFilter(op, sqlite_val)
    [] kind = "tsend" -> TsEndBoundFilter(op, sqlite_val)
    [] kind = "id" -> IdBoundFilter(op, sqlite_val)

\* The literals of a BoundFilter call.  A naturally ordered NumericColumn resolves
\* the literal with FindGtBound / FindLtBound / FindEqBound, which are followed
\* for integer literals; the other columns never read it.
BoundFilterAccepts(sqlite_val) ==
  (kind = "numeric" /\ is_naturally_ordered) => sqlite3_value_type(sqlite_val) = "int"

BoundFilter(op, sqlite_val) ==
  /\ ~fatal
  /\ BoundFilterAccepts(sqlite_val)
  /\ ret' = Ret("BoundFilter", op, sqlite_val, ColumnBoundFilter(op, sqlite_val),
                "none", NoOut)
  /\ UNCHANGED <<column, index, fatal>>

\* ------------------------------------------------------------------ Filter
\* What a Filter call leaves: the index, whether it was fatal, the domain used.
Filtered(idx, f, domain) == [index |-> idx, fatal |-> f, domain |-> domain]

\* A plausible slip: the operands of the binary test the other way round.
FilterWithCastSwapped(C, op, value) ==
  LET extracted == ExtractSqliteValue(C, value)
  IN FilterRows(index,
       [row \in index |->
          GetPredicateForOp(op, extracted, StaticCast(C, deque[row + 1]))])

\* NumericColumn<T>::FilterWithCast<C>.
FilterWithCast(C, op, value) ==
  LET extracted == ExtractSqliteValue(C, value)
  IN FilterRows(index,
       [row \in index |->
          GetPredicateForOp(op, StaticCast(C, deque[row + 1]), extracted)])

\* A plausible slip: a value that is no number is compared as a double instead
\* of being fatal.
NumericFilterNoFatal(op, value) ==
  LET type == sqlite3_value_type(value)
  IN IF type = "int" /\ is_integral
     THEN Filtered(FilterWithCast("int64", op, value), FALSE, "int64")
     ELSE Filtered(FilterWithCast("double", op, value), FALSE, "double")

\* NumericColumn<T>::Filter.
NumericFilter(op, value) ==
  LET type == sqlite3_value_type(value)
  IN IF type = "int" /\ is_integral
     THEN Filtered(FilterWithCast("int64", op, value), FALSE, "int64")
     ELSE IF type = "int" \/ type = "float"
     THEN Filtered(FilterWithCast("double", op, value), FALSE, "double")
     ELSE Filtered(index, TRUE, "none")

\* A plausible slip: the ids are filtered as if they were numbers.
StringFilterOnIds(op, value) ==
  Filtered(FilterWithCast("int64", op, value), FALSE, "int64")

\* StringColumn<Id>::Filter.
StringFilter(op, value) == Filtered(index, FALSE, "none")

\* TsEndColumn::Filter.
TsEndFilter(op, value) ==
  LET extracted == ExtractSqliteValue("int64", value)
  IN Filtered(FilterRows(index,
       [row \in index |->
          GetPredicateForOp(op, deque[row + 1] + dur[row + 1], extracted)]),
       FALSE, "int64")

\* A plausible slip: the row is compared without the table id.
IdFilterBareRow(op, value) ==
  LET extracted == ExtractSqliteValue("int64", value)
  IN Filtered(FilterRows(index,
       [row \in index |-> GetPredicateForOp(op, row, extracted)]),
       FALSE, "int64")

\* IdColumn::Filter.  The predicate holds binary_op by reference; FilterRows
\* calls it before Filter returns.
IdFilter(op, value) ==
  LET extracted == ExtractSqliteValue("int64", value)
  IN Filtered(FilterRows(index,
       [row \in index |->
          GetPredicateForOp(op, CreateRowId(table_id, row), extracted)]),
       FALSE, "int64")

\* StorageColumn::Filter, dispatched on the column's class.
ColumnFilter(op, value) ==
  CASE kind = "numeric" -> NumericFilter(op, value)
    [] kind = "string" -> StringFilter(op, value)
    [] kind = "tsend" -> TsEndFilter(op, value)
    [] kind = "id" -> IdFilter(op, value)

\* The RowId literals a query compares an IdColumn with.
RowIdLits ==
  {IntVal(CreateRowId(t, r)) : t \in 1 .. MaxTableId, r \in 0 .. MaxRows}
\* One of them.
SampleRowIds == {IntVal(CreateRowId(1, 1))}

\* The (op, value) pairs of a Filter call.  GetPredicateForOp is followed for
\* the six comparison operators; TsEndColumn and IdColumn extract an integer.
FilterAccepts(op, value) ==
  CASE kind = "numeric" ->
         /\ value \in Values
         /\ op \in CompareOps \/ sqlite3_value_type(value) \in {"text", "null"}
    [] kind = "string" -> value \in Values
    [] kind = "tsend" -> value \in IntLits /\ op \in CompareOps
    [] kind = "id" -> value \in RowIdLits \cup SampleRowIds /\ op \in CompareOps

Filter(op, value) ==
  /\ ~fatal
  /\ FilterAccepts(op, value)
  /\ LET done == ColumnFilter(op, value)
     IN /\ index' = done.index
        /\ fatal' = done.fatal
        /\ ret' = Ret("Filter", op, value, DefaultBounds, done.domain, NoOut)
  /\ UNCHANGED column

\* -------------------------------------------------------------------- Sort
\* The text a StringColumn row resolves to: (*string_map_)[(*deque_)[row]].
StringAt(row) == string_map[deque[row + 1] + 1]

\* NumericColumn<T>::Sort(ob)(f, s): the comparator Sort returns, applied.
NumericSort(desc, f, s) ==
  IF desc THEN CompareValuesDesc(deque[f + 1], deque[s + 1])
  ELSE CompareValuesAsc(deque[f + 1], deque[s + 1])

\* A plausible slip: the ids are compared, not the texts they stand for.
StringSortByIds(desc, f, s) ==
  IF desc THEN CompareValuesDesc(deque[f + 1], deque[s + 1])
  ELSE CompareValuesAsc(deque[f + 1], deque[s + 1])

\* StringColumn<Id>::Sort(ob)(f, s).
StringSort(desc, f, s) ==
  IF desc THEN CompareStringsDesc(StringAt(f), StringAt(s))
  ELSE CompareStringsAsc(StringAt(f), StringAt(s))

\* TsEndColumn::Sort(ob)(f, s).
TsEndSort(desc, f, s) ==
  IF desc THEN CompareValuesDesc(deque[f + 1] + dur[f + 1], deque[s + 1] + dur[s + 1])
  ELSE CompareValuesAsc(deque[f + 1] + dur[f + 1], deque[s + 1] + dur[s + 1])

\* IdColumn::Sort(ob)(f, s).
IdSort(desc, f, s) ==
  IF desc THEN CompareValuesDesc(CreateRowId(table_id, f), CreateRowId(table_id, s))
  ELSE CompareValuesAsc(CreateRowId(table_id, f), CreateRowId(table_id, s))

\* StorageColumn::Sort, dispatched on the column's class.
ColumnSort(desc, f, s) ==
  CASE kind = "numeric" -> NumericSort(desc, f, s)
    [] kind = "string" -> StringSort(desc, f, s)
    [] kind = "tsend" -> TsEndSort(desc, f, s)
    [] kind = "id" -> IdSort(desc, f, s)

\* The Comparator held by the executor, called on two rows.
Compare(f, s) == ColumnSort(comparator = "desc", f, s)

Sort(desc) ==
  /\ ~fatal
  /\ ret' = Ret("Sort", "EQ", NullVal, DefaultBounds, "none", BoolOut(desc))
  /\ UNCHANGED <<column, index, fatal>>

\* The executor's sort of the row indices with the Comparator: one exchange of
\* two neighbours the Comparator puts the other way round.
SortStep(i) ==
  /\ ~fatal
  /\ comparator # "none"
  /\ i \in 1 .. (Len(order) - 1)
  /\ Compare(order[i], order[i + 1]) > 0
  /\ order' = [order EXCEPT ![i] = order[i + 1], ![i + 1] = order[i]]
  /\ UNCHANGED <<column, index, fatal, ret, snap, hist, comparator>>

\* ---------------------------------- GetType, IsNaturallyOrdered, ReportResult
\* NumericColumn<T>::GetType for the modelled T (an unsigned integer, or double).
NumericGetType == IF is_integral THEN "kUint" ELSE "kDouble"

ColumnGetType ==
  CASE kind = "numeric" -> NumericGetType
    [] kind = "string" -> "kString"
    [] kind = "tsend" -> "kUlong"
    [] kind = "id" -> "kUlong"

GetType ==
  /\ ~fatal
  /\ ret' = Ret("GetType", "EQ", NullVal, DefaultBounds, "none", TypeOut(ColumnGetType))
  /\ UNCHANGED <<column, index, fatal>>

ColumnIsNaturallyOrdered ==
  CASE kind = "numeric" -> is_naturally_ordered
    [] kind = "string" -> FALSE
    [] kind = "tsend" -> FALSE
    [] kind = "id" -> FALSE

IsNaturallyOrdered ==
  /\ ~fatal
  /\ ret' = Ret("IsNaturallyOrdered", "EQ", NullVal, DefaultBounds, "none",
                BoolOut(ColumnIsNaturallyOrdered))
  /\ UNCHANGED <<column, index, fatal>>

\* StringColumn<Id>::ReportResult: the empty string is reported as null.
StringReportResult(row) ==
  LET str == StringAt(row)
  IN IF str = <<>> THEN NullOut ELSE TextOut(str)

ColumnReportResult(row) ==
  CASE kind = "numeric" -> IntOut(deque[row + 1])
    [] kind = "string" -> StringReportResult(row)
    [] kind = "tsend" -> IntOut(deque[row + 1] + dur[row + 1])
    [] kind = "id" -> IntOut(CreateRowId(table_id, row))

ReportResult(row) ==
  /\ ~fatal
  /\ row \in Rows
  /\ ret' = Ret("ReportResult", "EQ", NullVal, DefaultBounds, "none",
                ColumnReportResult(row))
  /\ UNCHANGED <<column, index, fatal>>

\* ------------------------------------------------------------- the storage
\* The interned strings: id 0 is the empty string; ids are not in text order.
StringTable == << <<>>, <<2>>, <<1>>, <<1, 2>> >>
StringIds == {i \in TValues : i < Len(StringTable)}

\* The trace storage appends a row; a naturally ordered deque stays sorted, and
\* positions already written are never written again.
StorageAppend(v, d) ==
  /\ ~fatal
  /\ Len(deque) < MaxLen
  /\ CASE kind = "numeric" ->
            /\ v \in TValues
            /\ (is_naturally_ordered /\ deque # <<>>) => deque[Len(deque)] <= v
            /\ d = 0
       [] kind = "string" -> v \in StringIds /\ d = 0
       [] kind = "tsend" ->
            /\ v \in TValues
            /\ deque # <<>> => deque[Len(deque)] <= v
       [] kind = "id" -> v = 0 /\ d = 0
  /\ deque' = Append(deque, v)
  /\ dur' = (IF kind = "tsend" THEN Append(dur, d) ELSE dur)
  /\ UNCHANGED <<kind, string_map, is_naturally_ordered, is_integral, table_id,
                 index, fatal, ret, snap, hist, comparator, order>>

\* ------------------------------------------------------------------ Init
\* A column of one of the classes in kinds over the storage as a query finds it:
\* a naturally ordered deque of up to nOrdered rows, any other of up to n rows.
InitColumn(kinds, nOrdered, n) ==
  /\ kind \in kinds
  /\ string_map = StringTable
  /\ CASE kind = "numeric" ->
            /\ is_integral \in BOOLEAN
            /\ is_naturally_ordered \in BOOLEAN
            /\ is_naturally_ordered => is_integral
            /\ deque \in SeqsUpTo(TValues, IF is_naturally_ordered THEN nOrdered ELSE n)
            /\ is_naturally_ordered => IsSorted(deque)
            /\ dur = <<>>
            /\ table_id = 0
       [] kind = "string" ->
            /\ is_integral = TRUE
            /\ is_naturally_ordered = FALSE
            /\ deque \in SeqsUpTo(StringIds, n)
            /\ dur = <<>>
            /\ table_id = 0
       [] kind = "tsend" ->
            /\ is_integral = TRUE
            /\ is_naturally_ordered = FALSE
            /\ deque \in SeqsUpTo(TValues, n)
            /\ IsSorted(deque)
            /\ dur \in [1 .. Len(deque) -> {0, MaxDur}]
            /\ table_id = 0
       [] kind = "id" ->
            /\ is_integral = TRUE
            /\ is_naturally_ordered = FALSE
            /\ deque \in SeqsUpTo({0}, n)
            /\ dur = <<>>
            /\ table_id \in 1 .. MaxTableId

\* A FilteredRowIndex over all the rows, and nothing called yet.
InitRest ==
  /\ index = Rows
  /\ fatal = FALSE
  /\ ret = NoRet
  /\ snap = <<>>
  /\ hist = {}
  /\ comparator = "none"
  /\ order = <<>>

AllKinds == {"numeric", "string", "tsend", "id"}

\* ------------------------------------------------------- the column's calls
\* What only the executor and the storage hold.
executor == <<snap, hist, comparator, order>>

\* Every operation of the StorageColumn interface, on a fixed storage.
Init == InitColumn(AllKinds, MaxRows, MaxRows) /\ InitRest

Next ==
  \/ \E op \in Ops, v \in SampleValues : BoundFilter(op, v) /\ UNCHANGED executor
  \/ \E op \in Ops, v \in SampleValues \cup RowIdLits :
       Filter(op, v) /\ UNCHANGED executor
  \/ \E desc \in BOOLEAN : Sort(desc) /\ UNCHANGED executor
  \/ GetType /\ UNCHANGED executor
  \/ IsNaturallyOrdered /\ UNCHANGED executor
  \/ \E row \in 0 .. (MaxRows - 1) : ReportResult(row) /\ UNCHANGED executor

Spec == Init /\ [][Next]_vars

\* BoundFilter alone, on a fixed storage, with every literal.
InitBound == InitColumn(AllKinds, MaxLen, MaxRows) /\ InitRest

NextBound ==
  \E op \in Ops, v \in Values :
    BoundFilter(op, v) /\ snap' = deque /\ UNCHANGED <<hist, comparator, order>>

SpecBound == InitBound /\ [][NextBound]_vars

\* Filter on one FilteredRowIndex, the (op, value) pairs it applied kept in hist,
\* for up to limit different pairs.
FilterTracked(op, value, limit) ==
  /\ Cardinality(hist \cup {<<op, value>>}) <= limit
  /\ Filter(op, value)
  /\ hist' = (IF fatal' THEN hist ELSE hist \cup {<<op, value>>})
  /\ UNCHANGED <<snap, comparator, order>>

\* One Filter on a FilteredRowIndex covering all the rows, with every literal.
NextFilter ==
  \E op \in Ops, v \in Values \cup RowIdLits : FilterTracked(op, v, 1)

SpecFilter == Init /\ [][NextFilter]_vars

\* Filter calls one after the other on a NumericColumn or an IdColumn.
InitFilterSeq == InitColumn({"numeric", "id"}, MaxRows, MaxRows) /\ InitRest

NextFilterSeq ==
  \E op \in Ops, v \in SampleValues \cup SampleRowIds :
    FilterTracked(op, v, MaxFilters)

SpecFilterSeq == InitFilterSeq /\ [][NextFilterSeq]_vars

\* Sort, and the executor sorting the rows with the Comparator it returned.
InitSort == InitColumn(AllKinds, MaxLen, MaxLen) /\ InitRest

SortBegin(desc) ==
  /\ Sort(desc)
  /\ comparator' = (IF desc THEN "desc" ELSE "asc")
  /\ order' = [i \in 1 .. Len(deque) |-> i - 1]
  /\ UNCHANGED <<snap, hist>>

NextSort ==
  \/ \E desc \in BOOLEAN : SortBegin(desc)
  \/ \E i \in 1 .. (MaxLen - 1) : SortStep(i)

SpecSort == InitSort /\ [][NextSort]_vars

\* BoundFilter, and the storage appending rows before and after it.
NextAppend ==
  \/ \E op \in Ops, v \in {IntVal(1), IntVal(kTMax + 1)} :
       BoundFilter(op, v) /\ snap' = deque /\ UNCHANGED <<hist, comparator, order>>
  \/ \E v \in TValues, d \in {0, MaxDur} : StorageAppend(v, d)

SpecAppend == InitBound /\ [][NextAppend]_vars

\* ------------------------------------------------------------------ claims
\* The predicate a comparison operator and a numeric literal imply on a column
\* value x: x compared with num + half/2, both taken in half units.
Satisfies(op, x, v) ==
  LET lhs == 2 * x
      rhs == 2 * v.num + v.half
  IN /\ v.kind \in {"int", "float"}
     /\ \/ op = "EQ" /\ lhs = rhs
        \/ op = "NE" /\ ~(lhs = rhs)
        \/ op = "LT" /\ lhs < rhs
        \/ op = "LE" /\ ~(rhs < lhs)
        \/ op = "GT" /\ rhs < lhs
        \/ op = "GE" /\ ~(lhs < rhs)

\* BoundFilter has just returned ret.bounds for (ret.op, ret.val).
Bounded == ret.call = "BoundFilter"
InRange(row) == ret.bounds.min_idx <= row /\ row < ret.bounds.max_idx
FullUnconsumed == Bounds(0, Len(deque), FALSE)

LiteralFitsT ==
  /\ ret.val.num \in TValues
  /\ IsOpGt(ret.op) => ret.val.num < kTMax
  /\ IsOpLt(ret.op) => ret.val.num > kTMin

BoundsExactWhenLiteralFits ==
  (Bounded /\ kind = "numeric" /\ is_naturally_ordered /\ LiteralFitsT) =>
    /\ \A row \in Rows : ~InRange(row) => ~Satisfies(ret.op, deque[row + 1], ret.val)
    /\ ret.bounds.consumed =>
         \A row \in Rows : InRange(row) => Satisfies(ret.op, deque[row + 1], ret.val)

\* C3 as stated.  For every column class the returned Bounds satisfy
\* min_idx <= max_idx <= length, and Bounds that are not consumed are {0, len, false}.
C3_RangeWithinLengthAllColumns ==
  Bounded =>
    /\ ret.bounds.min_idx <= ret.bounds.max_idx
    /\ ret.bounds.max_idx <= Len(deque)
    /\ ~ret.bounds.consumed => ret.bounds = FullUnconsumed

\* C3 as amended.  The Bounds of a NumericColumn, StringColumn or TsEndColumn
\* satisfy min_idx <= max_idx <= length and are {0, len, false} when not
\* consumed; an IdColumn returns the default Bounds {0, uint32 max, false},
\* whatever the number of rows.
C3_RangeWithinLength ==
  Bounded =>
    IF kind = "id"
    THEN ret.bounds = Bounds(0, kUint32Max, FALSE)
    ELSE /\ ret.bounds.min_idx <= ret.bounds.max_idx
         /\ ret.bounds.max_idx <= Len(deque)
         /\ ~ret.bounds.consumed => ret.bounds = FullUnconsumed

\* A naturally ordered column narrowed to a proper, non-empty range.
C3_Witness ==
  /\ Bounded
  /\ kind = "numeric"
  /\ ret.bounds.consumed
  /\ 0 < ret.bounds.min_idx
  /\ ret.bounds.min_idx < ret.bounds.max_idx
  /\ ret.bounds.max_idx < Len(deque)

\* C8.  No narrowing without proof: NumericColumn::BoundFilter returns
\* {0, length, false} when the column is not naturally ordered, when the operator
\* is none of =, <, <=, >, >=, and when the resolved [min, max] spans
\* [kTMin, kTMax]; and no column whose IsNaturallyOrdered() is false returns
\* consumed Bounds.
C8_NoNarrowingWithoutProof ==
  Bounded =>
    /\ (kind = "numeric" /\ ~is_naturally_ordered) => ret.bounds = FullUnconsumed
    /\ (kind = "numeric" /\ ret.op \notin {"EQ", "LT", "LE", "GT", "GE"}) =>
         ret.bounds = FullUnconsumed
    /\ (kind = "numeric" /\ is_naturally_ordered
          /\ ResolveMin(ret.op, ret.val) <= kTMin
          /\ ResolveMax(ret.op, ret.val) >= kTMax) => ret.bounds = FullUnconsumed
    /\ ~ColumnIsNaturallyOrdered => ~ret.bounds.consumed

\* A column that is not naturally ordered was asked for an equality on a value
\* it holds in the middle of other values, and did not narrow.
C8_Witness ==
  /\ Bounded
  /\ kind = "numeric"
  /\ ~is_naturally_ordered
  /\ ret.op = "EQ"
  /\ ret.val = IntVal(1)
  /\ Len(deque) = 2
  /\ deque[1] = 2 /\ deque[2] = 1
  /\ ret.bounds = FullUnconsumed

\* The value of the column at a row, and the text a text literal stands for ("a").
NumberAt(row) ==
  CASE kind = "numeric" -> deque[row + 1]
    [] kind = "tsend" -> deque[row + 1] + dur[row + 1]
    [] kind = "id" -> CreateRowId(table_id, row)
LiteralText == <<1>>

\* The predicate of a comparison operator on a text and the literal's text.
TextSatisfies(op, str) ==
  \/ op = "EQ" /\ str = LiteralText
  \/ op = "NE" /\ str # LiteralText
  \/ op = "LT" /\ StrLess(str, LiteralText)
  \/ op = "LE" /\ ~StrLess(LiteralText, str)
  \/ op = "GT" /\ StrLess(LiteralText, str)
  \/ op = "GE" /\ ~StrLess(str, LiteralText)

\* The naive evaluation of the predicate of (op, v) on the column's value at row.
RowSatisfies(op, row, v) ==
  IF kind = "string" THEN v.kind = "text" /\ TextSatisfies(op, StringAt(row))
  ELSE Satisfies(op, NumberAt(row), v)

\* Filter has just returned, having narrowed an index that covered every row.
FilteredAllRows ==
  /\ ret.call = "Filter"
  /\ ~fatal
  /\ hist = {<<ret.op, ret.val>>}
  /\ ret.op \in CompareOps

\* C4 as stated.  For every column class, the rows that survive Filter on an
\* index covering every row are the rows on which the naive evaluation of the
\* predicate is true.
C4_FilterEquivalenceAllColumns ==
  (FilteredAllRows /\ (kind = "string" => ret.val.kind = "text")) =>
    index = {row \in Rows : RowSatisfies(ret.op, row, ret.val)}

\* C4 as amended.  For a NumericColumn with an integer or floating-point
\* literal, and a TsEndColumn or IdColumn with an integer literal, and each of
\* the six comparison operators, the rows that survive Filter are the rows whose
\* value satisfies the predicate; after StringColumn::Filter every row survives.
C4_FilterEquivalence ==
  FilteredAllRows =>
    IF kind = "string" THEN index = Rows
    ELSE index = {row \in Rows : RowSatisfies(ret.op, row, ret.val)}

\* A NumericColumn holding 1 then 0 was asked for the rows > 0.5, in the
\* floating-point domain, and kept row 0 alone.
C4_Witness ==
  /\ FilteredAllRows
  /\ kind = "numeric"
  /\ deque = <<1, 0>>
  /\ ret.op = "GT"
  /\ ret.val = FloatVal(0, 1)
  /\ index = {0}

\* C7.  NumericColumn::Filter with a text or null value is fatal, for every
\* operator, and leaves the index as it was; with an integer value and an integer
\* element type it compares as int64_t, with any other integer or
\* floating-point value as double.
C7_NumericFilterDispatch ==
  /\ [](  (ret.call = "Filter" /\ kind = "numeric") =>
            /\ ret.val.kind \in {"text", "null"} => fatal
            /\ (ret.val.kind = "int" /\ is_integral) =>
                 ~fatal /\ ret.domain = "int64"
            /\ (ret.val.kind \in {"int", "float"}
                  /\ ~(ret.val.kind = "int" /\ is_integral)) =>
                 ~fatal /\ ret.domain = "double")
  /\ [][fatal' => index' = index]_vars

\* A NumericColumn<double> compared an integer literal as double, and a
\* NumericColumn was fatal on a text value with the is-null operator.
C7_Witness ==
  /\ ret.call = "Filter"
  /\ kind = "numeric"
  /\ \/ ~is_integral /\ ret.val.kind = "int" /\ ret.domain = "double" /\ index # Rows
     \/ fatal /\ ret.val.kind = "text" /\ ret.op = "ISNULL" /\ Len(deque) = 2

\* C9.  Frame: no call changes the deques, the string table or anything else
\* of the column; the index changes only in a Filter call, and never in
\* StringColumn::Filter.
C9_Frame ==
  [][ /\ column' = column
      /\ index' # index => (ret'.call = "Filter" /\ kind # "string")
      /\ (ret'.call = "Filter" /\ kind = "string") => index' = index ]_vars

\* Filter narrowed the index of a NumericColumn, and StringColumn::Filter ran.
C9_Witness ==
  /\ ret.call = "Filter"
  /\ \/ kind = "numeric" /\ index # Rows /\ Len(deque) = 2
     \/ kind = "string" /\ Len(deque) = 2 /\ ret.op = "EQ"

\* The rows every pair of h accepts.
RowsAccepted(h) ==
  {row \in Rows : \A p \in h : RowSatisfies(p[1], row, p[2])}

\* C10.  After any sequence of Filter calls on a NumericColumn or IdColumn the
\* index is the initial set cut by every call's predicate, whatever the order
\* of the calls and however often each was made; no call adds a row.
C10_FilterIntersection ==
  /\ [](index = RowsAccepted(hist))
  /\ [][index' \subseteq index]_vars

\* Two different Filter calls, each keeping some row, together keep none.
C10_Witness ==
  /\ ret.call = "Filter"
  /\ Cardinality(hist) = 2
  /\ index = {}
  /\ \A p \in hist : RowsAccepted({p}) # {}

\* The value order of the column at two rows.
ValueLess(a, b) ==
  IF kind = "string" THEN StrLess(StringAt(a), StringAt(b))
  ELSE NumberAt(a) < NumberAt(b)

\* The executor's sort has ended: the Comparator puts no two neighbours the
\* other way round.
SortEnded ==
  /\ comparator # "none"
  /\ \A i \in 1 .. (Len(order) - 1) : Compare(order[i], order[i + 1]) <= 0

\* C6.  For every column class and all rows a, b: the ascending comparator is
\* the negation of the descending one, it is negative, zero or positive as the
\* value at a is less than, equal to or greater than the value at b, and rows
\* sorted with the ascending comparator have non-decreasing values.
C6_SortDirection ==
  /\ \A a, b \in Rows :
       /\ ColumnSort(FALSE, a, b) = -ColumnSort(TRUE, a, b)
       /\ ColumnSort(FALSE, a, b) < 0 <=> ValueLess(a, b)
       /\ ColumnSort(FALSE, a, b) > 0 <=> ValueLess(b, a)
       /\ ColumnSort(FALSE, a, b) = 0 <=> (~ValueLess(a, b) /\ ~ValueLess(b, a))
  /\ (SortEnded /\ comparator = "asc") =>
       \A i \in 1 .. (Len(order) - 1) : ~ValueLess(order[i + 1], order[i])

\* A StringColumn of three rows whose ids are in ascending order and whose texts
\* are not, sorted ascending by exchanging rows.
C6_Witness ==
  /\ SortEnded
  /\ comparator = "asc"
  /\ kind = "string"
  /\ deque = <<0, 1, 2>>
  /\ order = <<0, 2, 1>>

ScanStaysInsideSnapshot ==
  (Bounded /\ kind # "id") =>
    /\ \A row \in Rows : InRange(row) => row < Len(snap)
    /\ \A row \in Rows : (InRange(row) /\ row < Len(snap)) => deque[row + 1] = snap[row + 1]

\* The IdColumn's share of C5.
IdScanStaysInsideSnapshot ==
  (Bounded /\ kind = "id") => \A row \in Rows : InRange(row) => row < Len(snap)

====
